---- MODULE Spec2Model ----
(***************************************************************************)
(* Model of etl/national_parks.py: the parallel per-country fetch          *)
(* (retrieve_parks_parallel / fetch_parks_for_country) and the             *)
(* normalisation and layer partitioning of save_parks_to_file.             *)
(***************************************************************************)
EXTENDS Integers, Sequences, FiniteSets

\* ---------------------------------------------------------------- bounds
MaxCountries == 5
\* max_workers=4, the default of retrieve_parks_parallel and the value main passes
DefaultMaxWorkers == 4

VARIABLES
  n,            \* number of rows of countries_gdf (countries are 1..n)
  maxWorkers,   \* max_workers of the ThreadPoolExecutor
  pc,           \* position of the coordinating thread in retrieve_parks_parallel
  status,       \* per country: state of its fetch task
  result,       \* per country: value held by its future
  fetchCalls,   \* per country: number of fetch_features calls started
  yielded,      \* futures already produced by as_completed
  cur,          \* the future of the current loop iteration (0: none)
  parks_data,   \* the aggregate list
  errors,       \* per country: number of "Error retrieving parks" reports
  appending,    \* threads inside parks_data.append
  columns,      \* gdf.columns of the frame handed to rename_duplicated_columns
  orig_columns, \* the column names before the first renaming
  first_columns,\* the column names after the first renaming
  renames,      \* number of rename_duplicated_columns calls made so far
  spc,          \* position inside save_parks_to_file
  all_parks_gdf,\* the merged frame: [columns, rows], a row is [idx, cells]
  points_gdf,   \* rows selected for the points layer
  lines_gdf,    \* rows selected for the lines layer
  polygons_gdf, \* rows selected for the polygons layer
  layers        \* the to_file requests made so far: [layer, rows]

orchVars == <<n, maxWorkers, pc, status, result, fetchCalls, yielded, cur,
              errors, appending>>
colVars == <<columns, orig_columns, first_columns, renames>>
saveVars == <<spc, all_parks_gdf, points_gdf, lines_gdf, polygons_gdf, layers>>
vars == <<orchVars, parks_data, colVars, saveVars>>

Main == "main"

NoFrame == [columns |-> <<>>, rows |-> <<>>]

\* the state of save_parks_to_file while it is not running
SaveIdle ==
  /\ spc = "idle" /\ all_parks_gdf = NoFrame
  /\ points_gdf = <<>> /\ lines_gdf = <<>> /\ polygons_gdf = <<>>
  /\ layers = <<>>

\* the column state while no frame is being renamed
ColsIdle ==
  /\ columns = <<>> /\ orig_columns = <<>> /\ first_columns = <<>>
  /\ renames = 0
Countries == 1..n
Running == {c \in Countries : status[c] = "running"}
Queued == {c \in Countries : status[c] = "queued"}
Submitted == {c \in Countries : status[c] # "new"}
Done == {c \in Countries : status[c] = "done"}

Init ==
  /\ n \in 0..MaxCountries
  /\ maxWorkers \in 1..DefaultMaxWorkers
  /\ pc = "submit"
  /\ status = [c \in 1..n |-> "new"]
  /\ result = [c \in 1..n |-> "pending"]
  /\ fetchCalls = [c \in 1..n |-> 0]
  /\ yielded = {}
  /\ cur = 0
  /\ parks_data = <<>>
  /\ errors = [c \in 1..n |-> 0]
  /\ appending = {}
  /\ ColsIdle
  /\ SaveIdle

\* executor.submit(fetch_parks_for_country, row, tags) for the next row
Submit ==
  /\ pc = "submit"
  /\ \E c \in Countries :
       /\ status[c] = "new"
       /\ \A d \in Countries : d < c => status[d] # "new"
       /\ status' = [status EXCEPT ![c] = "queued"]
  /\ UNCHANGED <<n, maxWorkers, pc, result, fetchCalls, yielded, cur,
                 parks_data, errors, appending, colVars, saveVars>>

\* the dict comprehension is exhausted: enter the as_completed loop
StartCollect ==
  /\ pc = "submit"
  /\ Submitted = Countries
  /\ pc' = "wait"
  /\ UNCHANGED <<n, maxWorkers, status, result, fetchCalls, yielded, cur,
                 parks_data, errors, appending, colVars, saveVars>>

\* variant: the pool starts a thread for every work item
PoolUnbounded == TRUE

\* a pool thread is free to take a work item
PoolHasIdleWorker == Cardinality(Running) < maxWorkers

\* a pool thread takes the oldest queued work item and calls fetch_features
WorkerStart(c) ==
  /\ status[c] = "queued"
  /\ \A d \in Queued : c <= d
  /\ PoolHasIdleWorker
  /\ status' = [status EXCEPT ![c] = "running"]
  /\ fetchCalls' = [fetchCalls EXCEPT ![c] = @ + 1]
  /\ UNCHANGED <<n, maxWorkers, pc, result, yielded, cur, parks_data,
                 errors, appending, colVars, saveVars>>

\* fetch_features returned: the frame is labelled with the country and returned
FetchReturn(c) ==
  /\ status[c] = "running"
  /\ status' = [status EXCEPT ![c] = "done"]
  /\ result' = [result EXCEPT ![c] = "gdf"]
  /\ UNCHANGED <<n, maxWorkers, pc, fetchCalls, yielded, cur, parks_data,
                 errors, appending, colVars, saveVars>>

\* variant: the exception escapes the task and its future never completes
FetchRaiseEscapes(c) ==
  /\ status[c] = "running"
  /\ status' = [status EXCEPT ![c] = "aborted"]
  /\ errors' = [errors EXCEPT ![c] = @ + 1]
  /\ UNCHANGED <<n, maxWorkers, pc, result, fetchCalls, yielded, cur,
                 parks_data, appending, colVars, saveVars>>

\* variant: the failure is swallowed without a report
ReportNothing(c) == errors

\* what the except branch of fetch_parks_for_country adds to the error reports
ReportFailure(c) == [errors EXCEPT ![c] = @ + 1]

\* fetch_features raised: the handler reports the country and returns None
FetchRaise(c) ==
  /\ status[c] = "running"
  /\ status' = [status EXCEPT ![c] = "done"]
  /\ result' = [result EXCEPT ![c] = "None"]
  /\ errors' = ReportFailure(c)
  /\ UNCHANGED <<n, maxWorkers, pc, fetchCalls, yielded, cur, parks_data,
                 appending, colVars, saveVars>>

\* variant: a handed-out future stays eligible
YieldedForgets(c) == yielded

\* the futures as_completed has handed out after it hands out c
YieldedAfter(c) == yielded \cup {c}

\* as_completed yields a finished future; result() is inspected
NextCompleted(c) ==
  /\ pc = "wait"
  /\ status[c] = "done"
  /\ c \notin yielded
  /\ yielded' = YieldedAfter(c)
  /\ cur' = c
  /\ IF result[c] # "None"
       THEN /\ pc' = "append"
            /\ appending' = appending \cup {Main}
       ELSE /\ pc' = "wait"
            /\ appending' = appending
  /\ UNCHANGED <<n, maxWorkers, status, result, fetchCalls, parks_data, errors, colVars, saveVars>>

\* parks_data.append(result)
AppendResult ==
  /\ pc = "append"
  /\ parks_data' = Append(parks_data, cur)
  /\ appending' = appending \ {Main}
  /\ pc' = "wait"
  /\ UNCHANGED <<n, maxWorkers, status, result, fetchCalls, yielded, cur, errors, colVars, saveVars>>

\* as_completed is exhausted: leave the loop, reach the end of the with block
LoopExit ==
  /\ pc = "wait"
  /\ yielded = Countries
  /\ pc' = "shutdown"
  /\ UNCHANGED <<n, maxWorkers, status, result, fetchCalls, yielded, cur,
                 parks_data, errors, appending, colVars, saveVars>>

\* ThreadPoolExecutor.__exit__: shutdown(wait=True), then return parks_data
ShutdownReturn ==
  /\ pc = "shutdown"
  /\ Running = {} /\ Queued = {}
  /\ pc' = "returned"
  /\ UNCHANGED <<n, maxWorkers, status, result, fetchCalls, yielded, cur,
                 parks_data, errors, appending, colVars, saveVars>>

Next ==
  \/ Submit
  \/ StartCollect
  \/ \E c \in Countries : WorkerStart(c)
  \/ \E c \in Countries : FetchReturn(c)
  \/ \E c \in Countries : FetchRaise(c)
  \/ \E c \in Countries : NextCompleted(c)
  \/ AppendResult
  \/ LoopExit
  \/ ShutdownReturn

Spec == Init /\ [][Next]_vars

\* Scheduling: the coordinating thread keeps running, the pool keeps handing
\* queued items to free threads, and every fetch call returns or raises.
FairSpec ==
  /\ Spec
  /\ WF_vars(Submit \/ StartCollect \/ (\E c \in Countries : NextCompleted(c))
               \/ AppendResult \/ LoopExit \/ ShutdownReturn)
  /\ WF_vars(\E c \in Countries : WorkerStart(c))
  /\ \A c \in 1..MaxCountries :
       WF_vars(c \in Countries /\ (FetchReturn(c) \/ FetchRaise(c)))

\* ------------------------------------------- rename_duplicated_columns
\* Column names are sequences of one-character strings.
MaxCols == 3

UpperToLower ==
  [A |-> "a", B |-> "b", C |-> "c", D |-> "d", E |-> "e", F |-> "f", G |-> "g",
   H |-> "h", I |-> "i", J |-> "j", K |-> "k", L |-> "l", M |-> "m", N |-> "n",
   O |-> "o", P |-> "p", Q |-> "q", R |-> "r", S |-> "s", T |-> "t", U |-> "u",
   V |-> "v", W |-> "w", X |-> "x", Y |-> "y", Z |-> "z"]

\* str.lower()
Lower(str) ==
  [i \in 1..Len(str) |->
     IF str[i] \in DOMAIN UpperToLower THEN UpperToLower[str[i]] ELSE str[i]]

\* str.replace(":", "_")
ReplaceColon(str) ==
  [i \in 1..Len(str) |-> IF str[i] = ":" THEN "_" ELSE str[i]]

\* str.replace(" ", "")
RECURSIVE RemoveSpaces(_)
RemoveSpaces(str) ==
  IF str = <<>> THEN <<>>
  ELSE IF Head(str) = " " THEN RemoveSpaces(Tail(str))
  ELSE <<Head(str)>> \o RemoveSpaces(Tail(str))

\* col.lower().replace(":", "_").replace(" ", "")
Canonical(col) == RemoveSpaces(ReplaceColon(Lower(col)))

Digits == <<"0", "1", "2", "3", "4", "5", "6", "7", "8", "9">>

\* the decimal text of a natural number, as an f-string renders it
RECURSIVE Decimal(_)
Decimal(k) ==
  IF k < 10 THEN <<Digits[k + 1]>>
  ELSE Decimal(k \div 10) \o <<Digits[(k % 10) + 1]>>

\* f"{canonical}_{count}"
Suffixed(col, count) == Canonical(col) \o <<"_">> \o Decimal(count)

\* variant: the counter starts at zero
FirstCountZero == 1 - 1

\* count = 1
FirstCount == 1

\* the while loop: try the current candidate, then the suffixed names in turn
RECURSIVE ResolveName(_, _, _, _)
ResolveName(col, new_col, count, seen) ==
  IF new_col \in seen
    THEN ResolveName(col, Suffixed(col, count), count + 1, seen)
    ELSE new_col

Fid == <<"f", "i", "d">>

\* if 'fid' in gdf.columns: del gdf['fid']
DropFid(cols) == SelectSeq(cols, LAMBDA col : col # Fid)

\* the for loop over gdf.columns, carrying seen and new_columns
RECURSIVE RenameLoop(_, _, _)
RenameLoop(cols, seen, new_columns) ==
  IF cols = <<>> THEN new_columns
  ELSE LET new_col == ResolveName(Head(cols), Canonical(Head(cols)),
                                  FirstCount, seen)
       IN RenameLoop(Tail(cols), seen \cup {new_col},
                     Append(new_columns, new_col))

\* the column names rename_duplicated_columns leaves on the frame
rename_duplicated_columns(cols) == RenameLoop(DropFid(cols), {}, <<>>)

\* original attribute keys the inputs are drawn from
KeyName == <<"n", "a", "m", "e">>
KeyNameCap == <<"N", "a", "m", "e">>
KeyNameUpper == <<"N", "A", "M", "E">>
KeyNameSpace == <<"n", "a", " ", "m", "e">>
KeyName1 == <<"n", "a", "m", "e", "_", "1">>
KeyNameColon1 == <<"N", "a", "m", "e", ":", "1">>
KeyFidUpper == <<"F", "I", "D">>
Keys == {KeyName, KeyNameCap, KeyNameUpper, KeyNameSpace, KeyName1,
         KeyNameColon1, Fid, KeyFidUpper}

RECURSIVE ListsUpTo(_, _)
ListsUpTo(S, k) ==
  IF k = 0 THEN {<<>>}
  ELSE LET shorter == ListsUpTo(S, k - 1)
       IN shorter \cup {Append(l, x) : l \in shorter, x \in S}

InitCols ==
  /\ n = 0 /\ maxWorkers = DefaultMaxWorkers /\ pc = "idle"
  /\ status = <<>> /\ result = <<>> /\ fetchCalls = <<>> /\ errors = <<>>
  /\ yielded = {} /\ cur = 0 /\ appending = {} /\ parks_data = <<>>
  /\ orig_columns \in ListsUpTo(Keys, MaxCols)
  /\ columns = orig_columns
  /\ first_columns = <<>>
  /\ renames = 0
  /\ SaveIdle

\* all_parks_gdf = rename_duplicated_columns(all_parks_gdf), first call
FirstRename ==
  /\ renames = 0
  /\ columns' = rename_duplicated_columns(columns)
  /\ first_columns' = columns'
  /\ renames' = 1
  /\ UNCHANGED <<orchVars, parks_data, orig_columns, saveVars>>

\* all_parks_gdf = rename_duplicated_columns(all_parks_gdf), second call
SecondRename ==
  /\ renames = 1
  /\ columns' = rename_duplicated_columns(columns)
  /\ renames' = 2
  /\ UNCHANGED <<orchVars, parks_data, orig_columns, first_columns, saveVars>>

NextCols == FirstRename \/ SecondRename

SpecCols == InitCols /\ [][NextCols]_vars

\* ------------------------------------------------- save_parks_to_file
\* the parks_data handed to the save holds at most MaxRows frames and at most
\* MaxRows rows in total
MaxRows == 2

GeometryCol == <<"g", "e", "o", "m", "e", "t", "r", "y">>
CountryCol == <<"c", "o", "u", "n", "t", "r", "y">>
PropertiesCol == <<"p", "r", "o", "p", "e", "r", "t", "i", "e", "s">>
KeyAddrCity == <<"a", "d", "d", "r", ":", "c", "i", "t", "y">>

\* geometries: a single geometry has one coordinate token, a multi geometry
\* or a collection holds member geometries; None is the null geometry
Single(type) == [type |-> type, parts |-> <<1>>]
Multi(type, members) == [type |-> type, parts |-> members]
None == [type |-> "None", parts |-> <<>>]
Geometries ==
  { None,
    Single("Point"), Single("LineString"), Single("Polygon"),
    Multi("MultiPoint", <<Single("Point"), Single("Point")>>),
    Multi("MultiLineString", <<Single("LineString"), Single("LineString")>>),
    Multi("MultiPolygon", <<Single("Polygon"), Single("Polygon")>>),
    Multi("GeometryCollection", <<Single("Point"), Single("Polygon")>>) }

\* attribute columns a fetched frame may carry besides geometry and country
FrameAttrs == { <<KeyName, KeyAddrCity>>, <<KeyAddrCity>>,
                <<KeyFidUpper, KeyNameCap>> }

\* the columns of a frame returned by fetch_parks_for_country
FrameColumns(frame) == <<GeometryCol>> \o frame.attrs \o <<CountryCol>>

\* sz[1] + ... + sz[i]
RECURSIVE RowsUpTo(_, _)
RowsUpTo(sz, i) == IF i = 0 THEN 0 ELSE sz[i] + RowsUpTo(sz, i - 1)

\* the list of frames with attribute columns at[i] and sz[i] rows each, the
\* geometries of the rows taken in order from rows
ParksList(at, sz, rows) ==
  [i \in 1..Len(at) |->
     [attrs |-> at[i],
      geoms |-> [r \in 1..sz[i] |-> rows[RowsUpTo(sz, i - 1) + r]]]]

\* the missing value
NaN == [frame |-> 0, row |-> 0, key |-> <<>>]

\* the cell of frame f, row r under column col
FrameCell(f, r, frame, col) ==
  IF col = GeometryCol THEN frame.geoms[r]
  ELSE IF col = CountryCol THEN [frame |-> f, row |-> 0, key |-> CountryCol]
  ELSE IF \E i \in 1..Len(frame.attrs) : frame.attrs[i] = col
    THEN [frame |-> f, row |-> r, key |-> col]
  ELSE NaN

\* the union of the frames' columns, in order of first appearance
RECURSIVE ConcatColumns(_, _)
ConcatColumns(frames, acc) ==
  IF frames = <<>> THEN acc
  ELSE LET fresh == SelectSeq(FrameColumns(Head(frames)),
                              LAMBDA c : \A i \in 1..Len(acc) : acc[i] # c)
       IN ConcatColumns(Tail(frames), acc \o fresh)

\* the rows of frames f.. under the merged columns, without their index
RECURSIVE ConcatRows(_, _, _)
ConcatRows(frames, f, cols) ==
  IF f > Len(frames) THEN <<>>
  ELSE [r \in 1..Len(frames[f].geoms) |->
          [c \in 1..Len(cols) |-> FrameCell(f, r, frames[f], cols[c])]]
       \o ConcatRows(frames, f + 1, cols)

\* gpd.GeoDataFrame(pd.concat(parks_data, ignore_index=True))
Concat(frames) ==
  LET cols == ConcatColumns(frames, <<>>)
      cells == ConcatRows(frames, 1, cols)
  IN [columns |-> cols,
      rows |-> [i \in 1..Len(cells) |-> [idx |-> i - 1, cells |-> cells[i]]]]

HasColumn(gdf, col) == \E i \in 1..Len(gdf.columns) : gdf.columns[i] = col
ColumnIndex(gdf, col) == CHOOSE i \in 1..Len(gdf.columns) : gdf.columns[i] = col

\* row.geometry of a merged row
RowGeometry(gdf, row) == row.cells[ColumnIndex(gdf, GeometryCol)]

\* all_parks_gdf[all_parks_gdf.geometry.notnull()]
DropNullGeometry(gdf) ==
  [columns |-> gdf.columns,
   rows |-> SelectSeq(gdf.rows, LAMBDA row : RowGeometry(gdf, row) # None)]

\* the cells left once del gdf['fid'] has removed every column named fid
RECURSIVE DropFidCells(_, _)
DropFidCells(cols, cells) ==
  IF cols = <<>> THEN <<>>
  ELSE (IF Head(cols) = Fid THEN <<>> ELSE <<Head(cells)>>)
       \o DropFidCells(Tail(cols), Tail(cells))

\* rename_duplicated_columns applied to a frame
RenameFrame(gdf) ==
  [columns |-> rename_duplicated_columns(gdf.columns),
   rows |-> [i \in 1..Len(gdf.rows) |->
               [idx |-> gdf.rows[i].idx,
                cells |-> DropFidCells(gdf.columns, gdf.rows[i].cells)]]]

\* row.drop(["name", "geometry"]).to_dict()
create_properties_json(gdf, row) ==
  LET kept == SelectSeq([i \in 1..Len(gdf.columns) |-> i],
                        LAMBDA i : gdf.columns[i] \notin {KeyName, GeometryCol})
  IN [j \in 1..Len(kept) |->
        [key |-> gdf.columns[kept[j]], value |-> row.cells[kept[j]]]]

\* the frame after the properties column is added and the three columns kept
Simplified(gdf) ==
  [columns |-> <<KeyName, GeometryCol, PropertiesCol>>,
   rows |-> [i \in 1..Len(gdf.rows) |->
     [idx |-> gdf.rows[i].idx,
      cells |-> << gdf.rows[i].cells[ColumnIndex(gdf, KeyName)],
                   RowGeometry(gdf, gdf.rows[i]),
                   create_properties_json(gdf, gdf.rows[i]) >>]]]

\* variant: polygons also select into the points layer
PointTypesWide == {"Point", "MultiPoint", "Polygon"}

PointTypes == {"Point", "MultiPoint"}
LineTypes == {"LineString", "MultiLineString"}
PolygonTypes == {"Polygon", "MultiPolygon"}

\* all_parks_gdf[all_parks_gdf.geometry.type.isin(types)]
SelectTypes(gdf, types) ==
  SelectSeq(gdf.rows, LAMBDA row : RowGeometry(gdf, row).type \in types)

\* MultiPoint([geom]) if geom.geom_type == "Point" else geom
ToMultiPoint(geom) ==
  IF geom.type = "Point" THEN Multi("MultiPoint", <<geom>>) ELSE geom

\* variant: the line layer tests for the point type
ToMultiLineStringWrongTest(geom) ==
  IF geom.type = "Point" THEN Multi("MultiLineString", <<geom>>) ELSE geom

\* MultiLineString([geom]) if geom.geom_type == "LineString" else geom
ToMultiLineString(geom) ==
  IF geom.type = "LineString" THEN Multi("MultiLineString", <<geom>>) ELSE geom

\* MultiPolygon([geom]) if geom.geom_type == "Polygon" else geom
ToMultiPolygon(geom) ==
  IF geom.type = "Polygon" THEN Multi("MultiPolygon", <<geom>>) ELSE geom

\* the lambda applied to the geometries of a layer
Promote(layer, geom) ==
  IF layer = "points" THEN ToMultiPoint(geom)
  ELSE IF layer = "lines" THEN ToMultiLineString(geom)
  ELSE ToMultiPolygon(geom)

\* layer_gdf["geometry"] = layer_gdf.geometry.apply(promote); rows are
\* <<name, geometry, properties>> here
PromoteRows(rows, layer) ==
  [i \in 1..Len(rows) |->
     [idx |-> rows[i].idx,
      cells |-> <<rows[i].cells[1], Promote(layer, rows[i].cells[2]),
                  rows[i].cells[3]>>]]

InitSave ==
  /\ n = 0 /\ maxWorkers = DefaultMaxWorkers /\ pc = "idle"
  /\ status = <<>> /\ result = <<>> /\ fetchCalls = <<>> /\ errors = <<>>
  /\ yielded = {} /\ cur = 0 /\ appending = {}
  /\ ColsIdle
  /\ \E f \in 0..MaxRows :
       \E sz \in [1..f -> 0..MaxRows] :
         /\ RowsUpTo(sz, f) <= MaxRows
         /\ \E at \in [1..f -> FrameAttrs] :
              \E rows \in [1..RowsUpTo(sz, f) -> Geometries] :
                parks_data = ParksList(at, sz, rows)
  /\ spc = "start"
  /\ all_parks_gdf = NoFrame
  /\ points_gdf = <<>> /\ lines_gdf = <<>> /\ polygons_gdf = <<>>
  /\ layers = <<>>

\* if not parks_data: print and return
SaveNoData ==
  /\ spc = "start"
  /\ parks_data = <<>>
  /\ spc' = "nodata"
  /\ UNCHANGED <<orchVars, parks_data, colVars, all_parks_gdf, points_gdf,
                 lines_gdf, polygons_gdf, layers>>

\* concatenate the frames and keep the rows whose geometry is not null
SaveConcat ==
  /\ spc = "start"
  /\ parks_data # <<>>
  /\ all_parks_gdf' = DropNullGeometry(Concat(parks_data))
  /\ spc' = "merged"
  /\ UNCHANGED <<orchVars, parks_data, colVars, points_gdf, lines_gdf,
                 polygons_gdf, layers>>

\* the first rename_duplicated_columns call
SaveRenameFirst ==
  /\ spc = "merged"
  /\ all_parks_gdf' = RenameFrame(all_parks_gdf)
  /\ spc' = "renamed"
  /\ UNCHANGED <<orchVars, parks_data, colVars, points_gdf, lines_gdf,
                 polygons_gdf, layers>>

\* the second rename_duplicated_columns call
SaveRenameSecond ==
  /\ spc = "renamed"
  /\ all_parks_gdf' = RenameFrame(all_parks_gdf)
  /\ spc' = "renamed_twice"
  /\ UNCHANGED <<orchVars, parks_data, colVars, points_gdf, lines_gdf,
                 polygons_gdf, layers>>

\* apply(create_properties_json) and the selection of name, geometry,
\* properties succeed
SaveSimplify ==
  /\ spc = "renamed_twice"
  /\ HasColumn(all_parks_gdf, KeyName)
  /\ HasColumn(all_parks_gdf, GeometryCol)
  /\ all_parks_gdf' = Simplified(all_parks_gdf)
  /\ spc' = "simplified"
  /\ UNCHANGED <<orchVars, parks_data, colVars, points_gdf, lines_gdf,
                 polygons_gdf, layers>>

\* row.drop or the column selection raises KeyError when the frame has no
\* name column; on a frame without rows the outcome of apply and of the
\* column assignment is left to the data-frame library, which may raise
SaveSimplifyRaises ==
  /\ spc = "renamed_twice"
  /\ \/ ~HasColumn(all_parks_gdf, KeyName)
     \/ ~HasColumn(all_parks_gdf, GeometryCol)
     \/ all_parks_gdf.rows = <<>>
  /\ spc' = "raised"
  /\ UNCHANGED <<orchVars, parks_data, colVars, all_parks_gdf, points_gdf,
                 lines_gdf, polygons_gdf, layers>>

\* the three selections by geometry type
SavePartition ==
  /\ spc = "simplified"
  /\ points_gdf' = SelectTypes(all_parks_gdf, PointTypes)
  /\ lines_gdf' = SelectTypes(all_parks_gdf, LineTypes)
  /\ polygons_gdf' = SelectTypes(all_parks_gdf, PolygonTypes)
  /\ spc' = "partitioned"
  /\ UNCHANGED <<orchVars, parks_data, colVars, all_parks_gdf, layers>>

\* the three conversions to multi-geometry types
SavePromote ==
  /\ spc = "partitioned"
  /\ points_gdf' = PromoteRows(points_gdf, "points")
  /\ lines_gdf' = PromoteRows(lines_gdf, "lines")
  /\ polygons_gdf' = PromoteRows(polygons_gdf, "polygons")
  /\ spc' = "promoted"
  /\ UNCHANGED <<orchVars, parks_data, colVars, all_parks_gdf, layers>>

\* the three to_file calls
SaveWrite ==
  /\ spc = "promoted"
  /\ layers' = << [layer |-> "points", rows |-> points_gdf],
                  [layer |-> "lines", rows |-> lines_gdf],
                  [layer |-> "polygons", rows |-> polygons_gdf] >>
  /\ spc' = "written"
  /\ UNCHANGED <<orchVars, parks_data, colVars, all_parks_gdf, points_gdf,
                 lines_gdf, polygons_gdf>>

NextSave ==
  \/ SaveNoData
  \/ SaveConcat
  \/ SaveRenameFirst
  \/ SaveRenameSecond
  \/ SaveSimplify
  \/ SaveSimplifyRaises
  \/ SavePartition
  \/ SavePromote
  \/ SaveWrite

SpecSave == InitSave /\ [][NextSave]_vars

\* ---------------------------------------------------------------- helpers
Range(s) == {s[i] : i \in 1..Len(s)}
NoDup(s) == \A i, j \in 1..Len(s) : i # j => s[i] # s[j]
Succeeded == {c \in Countries : result[c] = "gdf"}
Failed == {c \in Countries : result[c] = "None"}

\* C1: whatever subset of fetches raises, every submitted task completes and
\* the orchestrator eventually returns, and it returns only once every task
\* has completed (with a result or with a failure).
C1_FailureNeverBlocks ==
  /\ [](pc = "returned" => Done = Countries)
  /\ [](\A c \in Failed : status[c] = "done")
  /\ <>(pc = "returned" /\ Done = Countries)

C1_Witness ==
  /\ pc = "returned" /\ Failed # {} /\ Succeeded # {}
  /\ \E c \in Failed : \E d \in Succeeded : c < d

\* C2: on return the aggregate holds the frame of every country whose fetch
\* succeeded exactly once and of no other country, each fetch was called once
\* (no retry), and each failed country was reported exactly once; before the
\* return the aggregate never holds a duplicate or a failed country's frame.
C2_AggregateExact ==
  /\ NoDup(parks_data)
  /\ Range(parks_data) \subseteq Succeeded
  /\ \A c \in Countries : errors[c] = (IF c \in Failed THEN 1 ELSE 0)
  /\ pc = "returned" =>
       /\ Range(parks_data) = Succeeded
       /\ Len(parks_data) = n - Cardinality(Failed)
       /\ \A c \in Countries : fetchCalls[c] = 1

C2_Witness ==
  /\ pc = "returned" /\ n = 5
  /\ Cardinality(Failed) = 1
  /\ Len(parks_data) = 4
  /\ Cardinality({c \in Countries : errors[c] = 1}) = 1

\* C3: every boundary gets one fetch task, started at most once, and the
\* number of fetch calls executing at the same time never exceeds maxWorkers.
C3_BoundedConcurrency ==
  /\ Cardinality(Running) <= maxWorkers
  /\ \A c \in Countries : fetchCalls[c] <= 1
  /\ \A c \in Countries : (status[c] \in {"running", "done"}) <=> (fetchCalls[c] = 1)
  /\ pc # "submit" => Submitted = Countries

C3_Witness ==
  /\ n > maxWorkers
  /\ Cardinality(Running) = maxWorkers
  /\ Queued # {}

\* C9: only the coordinating thread is ever inside parks_data.append, so at
\* most one thread appends at a time; every successful result handed out by
\* as_completed is in the aggregate exactly once (or is being appended).
C9_SerializedAppends ==
  /\ Cardinality(appending) <= 1
  /\ appending \subseteq {Main}
  /\ (Main \in appending) <=> (pc = "append")
  /\ NoDup(parks_data)
  /\ Range(parks_data) \cup (IF pc = "append" THEN {cur} ELSE {})
       = yielded \cap Succeeded
  /\ pc = "append" => cur \notin Range(parks_data)

C9_Witness ==
  /\ pc = "append" /\ appending = {Main}
  /\ Running # {}
  /\ Len(parks_data) >= 1
\* the keys a renaming actually names: every column but an exact 'fid'
Survivors(cols) == DropFid(cols)
EarlierNames(out, i) == {out[j] : j \in 1..(i - 1)}
SameCanonicalBefore(ks, i) ==
  Cardinality({j \in 1..(i - 1) : Canonical(ks[j]) = Canonical(ks[i])})

\* C5 as stated: the resolved names are pairwise distinct, the first key with a
\* given canonical name keeps it bare, and the k-th later key with the same
\* canonical name gets that name with the suffix _k.
C5_Original ==
  renames >= 1 =>
    LET ks == Survivors(orig_columns)
        out == first_columns
    IN /\ Len(out) = Len(ks)
       /\ NoDup(out)
       /\ \A i \in 1..Len(ks) :
            LET k == SameCanonicalBefore(ks, i)
            IN out[i] = IF k = 0 THEN Canonical(ks[i]) ELSE Suffixed(ks[i], k)

\* C5 amended: the resolved names are pairwise distinct and in input order; a
\* key whose canonical name is not among the names already resolved keeps it
\* bare; any other key gets its canonical name with the smallest suffix _k,
\* k >= 1, that is not among the names already resolved; when no canonical or
\* suffixed name of a key coincides with a name resolved for a key of another
\* canonical name, the suffixes are _1, _2, ... in first-seen order, and
\* ["Name", "NAME"] resolves to [name, name_1].
C5_Resolution ==
  renames >= 1 =>
    LET ks == Survivors(orig_columns)
        out == first_columns
    IN /\ Len(out) = Len(ks)
       /\ NoDup(out)
       /\ \A i \in 1..Len(ks) :
            LET earlier == EarlierNames(out, i)
                bare == Canonical(ks[i])
            IN IF bare \notin earlier
                 THEN out[i] = bare
                 ELSE \E k \in 1..Len(ks) :
                        /\ out[i] = bare \o <<"_">> \o Decimal(k)
                        /\ out[i] \notin earlier
                        /\ \A m \in 1..(k - 1) :
                             (bare \o <<"_">> \o Decimal(m)) \in earlier
       /\ (\A i, j \in 1..Len(ks) :
             Canonical(ks[i]) # Canonical(ks[j]) =>
               \A k \in 0..Len(ks) :
                 (IF k = 0 THEN Canonical(ks[i]) ELSE Suffixed(ks[i], k))
                   # Canonical(ks[j]))
          => \A i \in 1..Len(ks) :
               LET k == SameCanonicalBefore(ks, i)
               IN out[i] = IF k = 0 THEN Canonical(ks[i]) ELSE Suffixed(ks[i], k)
       /\ orig_columns = <<KeyNameCap, KeyNameUpper>>
            => out = <<KeyName, KeyName1>>

C5_Witness ==
  /\ renames >= 1
  /\ orig_columns = <<KeyNameCap, KeyNameUpper, KeyNameSpace>>
  /\ first_columns = <<KeyName, KeyName1, <<"n", "a", "m", "e", "_", "2">> >>

\* C10 as stated: the second renaming returns the same ordered list of
\* column names as the first, removing and renaming nothing.
C10_SecondRenameIdentity ==
  renames = 2 => columns = first_columns
\* the non-null rows of the input, in concatenation order
RECURSIVE SourceRows(_, _)
SourceRows(frames, f) ==
  IF f > Len(frames) THEN <<>>
  ELSE SelectSeq([r \in 1..Len(frames[f].geoms) |->
                    [frame |-> f, row |-> r, attrs |-> frames[f].attrs,
                     geometry |-> frames[f].geoms[r]]],
                 LAMBDA x : x.geometry # None)
       \o SourceRows(frames, f + 1)

NoSurvivor == SourceRows(parks_data, 1) = <<>>

\* C4 as stated: when the aggregate is empty or holds only null geometries,
\* the save signals no data: it never raises and requests no layer write.
C4_NoDataSkipsPersistence ==
  (spc # "idle" /\ NoSurvivor) =>
     /\ spc \notin {"raised", "written"}
     /\ layers = <<>>

PropertyKeys(row) == {row.cells[3][j].key : j \in 1..Len(row.cells[3])}

\* the original keys of the merged input that canonicalise to name, in order
MergedNameKeys ==
  SelectSeq(ConcatColumns(parks_data, <<>>), LAMBDA k : Canonical(k) = KeyName)

\* C6 as stated: on a non-empty merged input, with or without a key that
\* canonicalises to name, the normalisation never raises and every record
\* comes out as {name, geometry, properties}: name is the record's value under
\* the key resolved to name, or missing; geometry is unchanged; properties has
\* neither name nor geometry and has every other canonical key of the record
\* (the reserved identifier aside).
C6_NormalizationShape ==
  /\ (spc = "raised" /\ ~NoSurvivor) => FALSE
  /\ (spc = "simplified" /\ ~NoSurvivor) =>
       LET src == SourceRows(parks_data, 1)
           out == all_parks_gdf.rows
       IN /\ all_parks_gdf.columns = <<KeyName, GeometryCol, PropertiesCol>>
          /\ Len(out) = Len(src)
          /\ \A i \in 1..Len(src) :
               /\ Len(out[i].cells) = 3
               /\ out[i].cells[2] = src[i].geometry
               /\ out[i].cells[1] =
                    IF /\ MergedNameKeys # <<>>
                       /\ \E k \in 1..Len(src[i].attrs) :
                            src[i].attrs[k] = MergedNameKeys[1]
                      THEN [frame |-> src[i].frame, row |-> src[i].row,
                            key |-> MergedNameKeys[1]]
                      ELSE NaN
               /\ KeyName \notin PropertyKeys(out[i])
               /\ GeometryCol \notin PropertyKeys(out[i])
               /\ CountryCol \in PropertyKeys(out[i])
               /\ \A k \in 1..Len(src[i].attrs) :
                    Canonical(src[i].attrs[k]) \notin {KeyName, GeometryCol, Fid}
                      => Canonical(src[i].attrs[k]) \in PropertyKeys(out[i])

Occurrences(rows, idx) == Cardinality({i \in 1..Len(rows) : rows[i].idx = idx})
GeomType(row) == row.cells[2].type

\* C7: once the frame is partitioned, a Point or MultiPoint record is in the
\* points selection once and in no other, likewise LineString and
\* MultiLineString for lines and Polygon and MultiPolygon for polygons; a
\* record of any other kind is in none; every selected record is a record of
\* the normalised frame, with its name and properties.
C7_PartitionTotalDisjoint ==
  spc \in {"partitioned", "promoted", "written"} =>
    /\ \A i \in 1..Len(all_parks_gdf.rows) :
         LET row == all_parks_gdf.rows[i]
             t == GeomType(row)
         IN /\ Occurrences(points_gdf, row.idx)
                 = (IF t \in {"Point", "MultiPoint"} THEN 1 ELSE 0)
            /\ Occurrences(lines_gdf, row.idx)
                 = (IF t \in {"LineString", "MultiLineString"} THEN 1 ELSE 0)
            /\ Occurrences(polygons_gdf, row.idx)
                 = (IF t \in {"Polygon", "MultiPolygon"} THEN 1 ELSE 0)
    /\ \A part \in {points_gdf, lines_gdf, polygons_gdf} :
         \A j \in 1..Len(part) :
           \E i \in 1..Len(all_parks_gdf.rows) :
             /\ all_parks_gdf.rows[i].idx = part[j].idx
             /\ all_parks_gdf.rows[i].cells[1] = part[j].cells[1]
             /\ all_parks_gdf.rows[i].cells[3] = part[j].cells[3]
             /\ spc = "partitioned" => all_parks_gdf.rows[i] = part[j]

C7_Witness ==
  /\ spc = "partitioned"
  /\ \E i \in 1..Len(all_parks_gdf.rows) :
       GeomType(all_parks_gdf.rows[i]) = "GeometryCollection"
  /\ Len(points_gdf) + Len(lines_gdf) + Len(polygons_gdf) = 1
  /\ Len(all_parks_gdf.rows) = 2

SourceGeometry(idx) ==
  LET i == CHOOSE i \in 1..Len(all_parks_gdf.rows) : all_parks_gdf.rows[i].idx = idx
  IN all_parks_gdf.rows[i].cells[2]

LayerUniform(rows, single, multi, layer) ==
  \A j \in 1..Len(rows) :
    LET g == SourceGeometry(rows[j].idx)
    IN /\ GeomType(rows[j]) = multi
       /\ g.type = single => rows[j].cells[2] = [type |-> multi, parts |-> <<g>>]
       /\ g.type = multi => rows[j].cells[2] = g
       /\ Promote(layer, rows[j].cells[2]) = rows[j].cells[2]

\* C8: after promotion every record of a layer has the layer's multi type; a
\* single geometry became the multi geometry holding exactly it, a multi
\* geometry is unchanged, promoting again changes nothing, and the writer is
\* handed exactly these records under the three layer names.
C8_UniformMultiGeometry ==
  spc \in {"promoted", "written"} =>
    /\ LayerUniform(points_gdf, "Point", "MultiPoint", "points")
    /\ LayerUniform(lines_gdf, "LineString", "MultiLineString", "lines")
    /\ LayerUniform(polygons_gdf, "Polygon", "MultiPolygon", "polygons")
    /\ spc = "written" =>
         layers = << [layer |-> "points", rows |-> points_gdf],
                     [layer |-> "lines", rows |-> lines_gdf],
                     [layer |-> "polygons", rows |-> polygons_gdf] >>

C8_Witness ==
  /\ spc = "written"
  /\ Len(layers[2].rows) = 2
  /\ SourceGeometry(layers[2].rows[1].idx).type = "LineString"
  /\ SourceGeometry(layers[2].rows[2].idx).type = "MultiLineString"
====
